---- MODULE Spec2Model ----
(***************************************************************************)
(* Model of the Schwab OAuth token lifecycle and the authenticated market  *)
(* data requests of AI-Trader:                                             *)
(*   agent_tools/schwab_client.py        SchwabAPIClient                   *)
(*   agent_tools/tool_get_price_schwab.py  the MCP tools over one client   *)
(*   schwab_oauth.py, exchange_token.py  authorization-code exchange       *)
(*   refresh_token.py                    the stand-alone refresh script    *)
(* The brokerage's HTTP service is the environment: every response is a    *)
(* nondeterministic input.                                                 *)
(***************************************************************************)
EXTENDS Integers, Sequences, FiniteSets, TLC

\* ------------------------------------------------------------------ bounds
\* Distinct access tokens / refresh tokens the token endpoint may issue.
NumTokens == 2
\* Callers of the shared module-level client (tool invocations).
NumCallers == 2

Callers == 1..NumCallers

\* ------------------------------------------------------------------ values
\* Python's None (also what os.getenv returns for an unset key).
None == <<>>
AT(i) == <<"at", i>>
RT(i) == <<"rt", i>>
AccessTokens == {AT(i) : i \in 1..NumTokens}
RefreshTokens == {RT(i) : i \in 1..NumTokens}

ClientId == <<"client_id">>
ClientSecret == <<"client_secret">>

\* dict.get(key, default)
Get(d, k, default) == IF k \in DOMAIN d THEN d[k] ELSE default

\* base64.b64encode(s.encode()).decode(): an encoding of its argument, kept
\* apart from the argument itself.
b64encode(s) == <<"b64", s>>

\* f"Basic {b64(client_id:client_secret)}"
BasicAuth(id, secret) == <<"Basic", b64encode(<<id, ":", secret>>)>>

\* ------------------------------------------------------------------ .env
\* The configuration file is a sequence of KEY=value lines.
KeyAccess == "SCHWAB_ACCESS_TOKEN"
KeyRefresh == "SCHWAB_REFRESH_TOKEN"

Line(k, v) == [key |-> k, val |-> v]

CredLines ==
  << Line("SCHWAB_CLIENT_ID", ClientId),
     Line("SCHWAB_CLIENT_SECRET", ClientSecret),
     Line("# SCHWAB_ACCESS_TOKEN", <<"commented out">>) >>

\* Lines that follow the token lines in the file.
TrailerLines ==
  << Line("GETPRICE_HTTP_PORT", <<"8003">>) >>

\* Files the program can be started with: both tokens present, only the
\* access token copied in, or no token obtained yet.
InitialEnvFiles ==
  { CredLines \o << Line(KeyAccess, AT(1)), Line(KeyRefresh, RT(1)) >> \o TrailerLines,
    CredLines \o << Line(KeyAccess, AT(1)) >> \o TrailerLines,
    CredLines \o TrailerLines }

\* load_dotenv() + os.getenv(key): the value of the key's line, None if unset.
getenv(file, k) ==
  LET idx == {i \in 1..Len(file) : file[i].key = k}
  IN  IF idx = {} THEN None
      ELSE file[CHOOSE i \in idx : \A j \in idx : j <= i].val

\* Faulty variant of update_env_file: only the token lines are written back.
update_env_file_TokensOnly(file, access, refresh) ==
  LET IsToken(l) == l.key \in {KeyAccess, KeyRefresh}
      kept == SelectSeq(file, IsToken)
  IN  [i \in 1..Len(kept) |->
         IF kept[i].key = KeyAccess THEN Line(KeyAccess, access)
         ELSE Line(KeyRefresh, refresh)]

\* update_env_file: rewrite the file line by line, replacing the token lines.
update_env_file(file, access, refresh) ==
  [i \in 1..Len(file) |->
     IF file[i].key = KeyAccess THEN Line(KeyAccess, access)
     ELSE IF file[i].key = KeyRefresh THEN Line(KeyRefresh, refresh)
     ELSE file[i]]

\* ------------------------------------------------------------------ symbols
\* Symbols appear as the raw fields of the comma-separated tool argument,
\* after split(","): "AAPL", " BAD", "aapl".

\* str.strip()
Strip(s) == IF s = " BAD" THEN "BAD" ELSE s

\* str.upper()
Upper(s) == IF s = "aapl" THEN "AAPL" ELSE s

\* symbol_list = [s.strip() for s in symbols.split(",")]
ParseSymbols(raw) == [i \in 1..Len(raw) |-> Strip(raw[i])]

\* Arguments the tools are called with.
QuoteArgs == {<<"AAPL">>, <<"aapl">>}
BulkArgs == {<<"AAPL", " BAD">>, <<"aapl">>}
HistoryArgs == {<<"AAPL">>}

Ops == {"get_quote", "get_quotes_bulk", "get_price_history"}
ArgsOf(op) ==
  IF op = "get_quote" THEN QuoteArgs
  ELSE IF op = "get_quotes_bulk" THEN BulkArgs
  ELSE HistoryArgs

\* Symbols named in the request URL: symbol.upper() for get_quote,
\* ",".join(s.upper() for s in symbols) for get_quotes_bulk.
RequestedSymbols(op, arg) ==
  IF op = "get_quotes_bulk"
  THEN {Upper(ParseSymbols(arg)[i]) : i \in 1..Len(arg)}
  ELSE {Upper(arg[1])}

\* ------------------------------------------------------------------ server
\* Per-symbol payloads of the quotes endpoint.
QuotePayloads ==
  { [quote |-> [lastPrice |-> 150, bidPrice |-> 149, askPrice |-> 151]],
    [quote |-> [lastPrice |-> 150]] }

\* 200 bodies of GET /marketdata/v1/quotes: data for some requested symbols.
QuoteBodies(op, arg) ==
  {[s \in S |-> p] : S \in SUBSET RequestedSymbols(op, arg), p \in QuotePayloads}

\* 200 body of GET /marketdata/v1/pricehistory.
HistoryBodies(arg) == {[symbol |-> arg[1], candles |-> <<>>]}

BodiesOf(op, arg) ==
  IF op = "get_price_history" THEN HistoryBodies(arg) ELSE QuoteBodies(op, arg)

\* What a data request ends in: an HTTP status (200, 401, another 4xx, a 5xx),
\* or a transport error.
TransportError == -1
DataStatuses == {200, 401, 404, 500, TransportError}

\* The stub server's answers to the first and the second data request of a
\* call, fixed when the call starts; the 200 body is chosen on receipt.
Stubs == DataStatuses \X DataStatuses

\* Token endpoint: 200 with a JSON body, 400 (invalid or expired grant), 500,
\* or a transport error.
TokenStatuses == {200, 400, 500, TransportError}

TokenBodies ==
  {[k \in K |-> IF k = "access_token" THEN a ELSE r] :
     K \in SUBSET {"access_token", "refresh_token"},
     a \in AccessTokens, r \in RefreshTokens}

TokenResponses ==
  {[status |-> 200, body |-> b] : b \in TokenBodies}
  \cup {[status |-> s, body |-> <<>>] : s \in TokenStatuses \ {200}}

\* response.raise_for_status() raises for 4xx and 5xx.
RaisesForStatus(status) == status >= 400

\* ------------------------------------------------------------------ client
\* SchwabAPIClient._get_headers: raises ValueError without an access token.
get_headers(token) ==
  IF token = None
  THEN [raised |-> TRUE, Authorization |-> None]
  ELSE [raised |-> FALSE, Authorization |-> <<"Bearer", token>>]

\* The token POST of SchwabAPIClient.refresh_access_token.
ClientRefreshRequest(rt) ==
  [ headers |-> ("Content-Type" :> "application/x-www-form-urlencoded"),
    data |-> [ grant_type |-> "refresh_token", refresh_token |-> rt,
               client_id |-> ClientId, client_secret |-> ClientSecret ] ]

NoTokenReq == [headers |-> <<>>, data |-> <<>>]
NoTokenResp == [status |-> 0, body |-> <<>>]

\* self.access_token = token_data.get("access_token")
NewAccessToken(token_data) == Get(token_data, "access_token", None)

\* Faulty variant of NewRefreshToken: the refresh token is overwritten even
\* when the response carries none.
NewRefreshTokenOverwrite(token_data, old) == Get(token_data, "refresh_token", None)

\* if "refresh_token" in token_data: self.refresh_token = token_data["refresh_token"]
NewRefreshToken(token_data, old) ==
  IF "refresh_token" \in DOMAIN token_data THEN token_data["refresh_token"] ELSE old

\* What a client method returns or raises.
RetValue(v) == [kind |-> "value", val |-> v]
RetNone == [kind |-> "None", val |-> <<>>]
RetEmptyDict == [kind |-> "value", val |-> <<>>]
RetRaise(exc) == [kind |-> exc, val |-> <<>>]
NoRet == [kind |-> "pending", val |-> <<>>]

\* The value of the except-RequestException and refresh-failed branches:
\* None for get_quote and get_price_history, {} for get_quotes_bulk.
FailureReturn(op) == IF op = "get_quotes_bulk" THEN RetEmptyDict ELSE RetNone

IsFailure(op, ret) ==
  ret.kind = FailureReturn(op).kind /\ DOMAIN ret.val = {}

\* The value returned for a 200 response with JSON body `data`.
SuccessReturn(op, arg, data) ==
  IF op = "get_quote"
  THEN IF arg[1] \in DOMAIN data THEN RetValue(data[arg[1]]) ELSE RetNone
  ELSE RetValue(data)

\* SchwabAPIClient.format_quote_for_trading
format_quote_for_trading(quote_data) ==
  IF DOMAIN quote_data = {} \/ "quote" \notin DOMAIN quote_data
  THEN <<>>
  ELSE LET quote == quote_data["quote"]
       IN [ buy_price |-> Get(quote, "askPrice", Get(quote, "lastPrice", 0)),
            sell_price |-> Get(quote, "bidPrice", Get(quote, "lastPrice", 0)),
            last_price |-> Get(quote, "lastPrice", 0),
            high |-> Get(quote, "highPrice", 0),
            low |-> Get(quote, "lowPrice", 0),
            volume |-> Get(quote, "totalVolume", 0),
            timestamp |-> Get(quote, "quoteTime", 0) ]

\* ------------------------------------------------------------------ tools
\* A tool returns {"error": msg} for the whole call, or its result dict.
ToolError(msg) == [status |-> "error", error |-> msg, result |-> <<>>]
ToolOk(d) == [status |-> "ok", error |-> "", result |-> d]
NoTool == [status |-> "pending", error |-> "", result |-> <<>>]

\* result[symbol] = {"error": "No data available"}
SymbolError == [error |-> "No data available"]

\* tool_get_price_schwab.get_real_time_price, given what get_quote did.
get_real_time_price(symbol, ret) ==
  IF ret.kind \notin {"value", "None"}
  THEN ToolError("Failed to fetch price")
  ELSE IF ret.kind = "None" \/ DOMAIN ret.val = {}
  THEN ToolError("No quote data available")
  ELSE LET formatted == format_quote_for_trading(ret.val)
       IN ToolOk(
          [ symbol |-> symbol,
            current_price |-> Get(formatted, "last_price", 0),
            bid_price |-> Get(formatted, "sell_price", 0),
            ask_price |-> Get(formatted, "buy_price", 0),
            high |-> Get(formatted, "high", 0),
            low |-> Get(formatted, "low", 0),
            volume |-> Get(formatted, "volume", 0),
            timestamp |-> Get(formatted, "timestamp", 0),
            status |-> "success" ])

\* The argument get_multiple_prices hands to format_quote_for_trading.
BulkFormatArg(symbol, quotes) == (symbol :> quotes[symbol])

\* tool_get_price_schwab.get_multiple_prices, given what get_quotes_bulk did.
\* The result dict is keyed by symbol + suffix; <<s, x>> stands for that key.
get_multiple_prices(raw, ret) ==
  IF ret.kind # "value"
  THEN ToolError("Failed to fetch prices")
  ELSE LET symbol_list == ParseSymbols(raw)
           quotes == ret.val
           syms == {symbol_list[i] : i \in 1..Len(symbol_list)}
           have == {s \in syms : s \in DOMAIN quotes}
           keys == {<<s, x>> : s \in have, x \in {"_price", "_bid", "_ask"}}
                   \cup {<<s, "">> : s \in syms \ have}
           fmt(s) == format_quote_for_trading(BulkFormatArg(s, quotes))
       IN ToolOk(
          [ k \in keys |->
              IF k[2] = "_price" THEN [num |-> Get(fmt(k[1]), "last_price", 0)]
              ELSE IF k[2] = "_bid" THEN [num |-> Get(fmt(k[1]), "sell_price", 0)]
              ELSE IF k[2] = "_ask" THEN [num |-> Get(fmt(k[1]), "buy_price", 0)]
              ELSE SymbolError ])

\* What the caller of the tool layer gets once the client method is over.
ToolResult(op, arg, ret) ==
  IF op = "get_quote" THEN get_real_time_price(arg[1], ret)
  ELSE IF op = "get_quotes_bulk" THEN get_multiple_prices(arg, ret)
  ELSE NoTool

\* ------------------------------------------------------------------ state
VARIABLES
  access_token,   \* SchwabAPIClient.access_token of the shared client
  refresh_token,  \* SchwabAPIClient.refresh_token of the shared client
  env,            \* the lines of the .env file
  call,           \* per caller: the client method it is executing
  script,         \* the command-line script that ran last, and how it ended
  refreshed,      \* history: a refresh succeeded on this client instance
  lastIssued,     \* history: access token of the latest successful refresh
  failed          \* history: a refresh of this instance was rejected (400)

vars == <<access_token, refresh_token, env, call, script, refreshed, lastIssued, failed>>

IdleCall ==
  [ pc |-> "idle", op |-> "none", arg |-> <<>>, stub |-> <<0, 0>>,
    nReq |-> 0, nRefresh |-> 0, nTokenReq |-> 0, bearer |-> None,
    tokenReq |-> NoTokenReq, tokenResp |-> NoTokenResp, refreshOk |-> "none",
    ret |-> NoRet, tool |-> NoTool ]

NoScript ==
  [ name |-> "none", outcome |-> "none", nTokenReq |-> 0,
    tokenReq |-> NoTokenReq, tokenResp |-> NoTokenResp, wrote |-> FALSE ]

\* SchwabAPIClient.__init__ after load_dotenv(): the tokens come from .env.
Init ==
  /\ env \in InitialEnvFiles
  /\ access_token = getenv(env, KeyAccess)
  /\ refresh_token = getenv(env, KeyRefresh)
  /\ call = [c \in Callers |-> IdleCall]
  /\ script = NoScript
  /\ refreshed = FALSE
  /\ lastIssued = None
  /\ failed = FALSE

\* One operation at a time: nothing else is running.
Quiet ==
  /\ \A c \in Callers : call[c].pc = "idle"
  /\ script.name = "none"

\* The client method is over: the tool layer computes its own result.
Finish(r, ret) ==
  [r EXCEPT !.pc = "done", !.ret = ret, !.tool = ToolResult(r.op, r.arg, ret)]

\* requests.get(url, headers=self._get_headers()) of the first attempt.
FirstAttempt(r, token) ==
  LET h == get_headers(token)
  IN  IF h.raised
      THEN Finish(r, RetRaise("ValueError"))
      ELSE [r EXCEPT !.pc = "sent1", !.nReq = 1, !.bearer = h.Authorization[2]]

\* A caller enters get_quote, get_quotes_bulk or get_price_history.
Start(c, op, arg, stub) ==
  /\ call[c].pc = "idle"
  /\ call' = [call EXCEPT ![c] =
       FirstAttempt([IdleCall EXCEPT !.op = op, !.arg = arg, !.stub = stub],
                    access_token)]
  /\ UNCHANGED <<access_token, refresh_token, env, script, refreshed, lastIssued, failed>>

\* The re-issued request after a successful refresh. get_quote's line names
\* `params`, which get_quote never defines: after _get_headers() is evaluated
\* the call raises NameError and nothing is sent.
Retry(r, token) ==
  LET h == get_headers(token)
  IN  IF h.raised THEN Finish(r, RetRaise("ValueError"))
      ELSE IF r.op = "get_quote" THEN Finish(r, RetRaise("NameError"))
      ELSE [r EXCEPT !.pc = "sent2", !.nReq = r.nReq + 1,
                     !.bearer = h.Authorization[2]]

\* Faulty variant of RefreshFailed: the request is re-issued although the
\* refresh failed.
RefreshFailedRetries(r) ==
  [r EXCEPT !.refreshOk = "fail", !.pc = "sent2", !.nReq = r.nReq + 1]

\* `else: return None` / `return {}` when refresh_access_token() is False.
RefreshFailed(r) == Finish([r EXCEPT !.refreshOk = "fail"], FailureReturn(r.op))

\* Faulty variant of RetryToken: the retry reuses the headers of the first
\* attempt.
RetryTokenStale(r, current) == r.bearer

\* The token the retry's _get_headers() reads: the client's current one.
RetryToken(r, current) == current

\* Faulty variant of Unauthorized: every error status triggers the refresh.
UnauthorizedOrAnyError(status) == status = 401 \/ RaisesForStatus(status)

\* if response.status_code == 401
Unauthorized(status) == status = 401

\* The first response arrives. 401 enters refresh_access_token.
Recv1(c) ==
  LET r == call[c]
      s == r.stub[1]
  IN
  /\ r.pc = "sent1"
  /\ IF Unauthorized(s)
     THEN LET q == [r EXCEPT !.nRefresh = r.nRefresh + 1]
          IN  IF refresh_token = None
              THEN call' = [call EXCEPT ![c] = RefreshFailed(q)]
              ELSE call' = [call EXCEPT ![c] =
                     [q EXCEPT !.pc = "refreshing",
                               !.nTokenReq = q.nTokenReq + 1,
                               !.tokenReq = ClientRefreshRequest(refresh_token)]]
     ELSE IF s = TransportError \/ RaisesForStatus(s)
     THEN call' = [call EXCEPT ![c] = Finish(r, FailureReturn(r.op))]
     ELSE \E data \in BodiesOf(r.op, r.arg) :
            call' = [call EXCEPT ![c] = Finish(r, SuccessReturn(r.op, r.arg, data))]
  /\ UNCHANGED <<access_token, refresh_token, env, script, refreshed, lastIssued, failed>>

\* The token endpoint answers the client's refresh request.
RecvRefresh(c, resp) ==
  LET r == [call[c] EXCEPT !.tokenResp = resp]
  IN
  /\ call[c].pc = "refreshing"
  /\ IF resp.status = TransportError \/ RaisesForStatus(resp.status)
     THEN /\ call' = [call EXCEPT ![c] = RefreshFailed(r)]
          /\ failed' = (failed \/ resp.status = 400)
          /\ UNCHANGED <<access_token, refresh_token, refreshed, lastIssued>>
     ELSE LET newAccess == NewAccessToken(resp.body)
          IN  /\ access_token' = newAccess
              /\ refresh_token' = NewRefreshToken(resp.body, refresh_token)
              /\ refreshed' = TRUE
              /\ lastIssued' = newAccess
              /\ call' = [call EXCEPT ![c] =
                   Retry([r EXCEPT !.refreshOk = "ok"], RetryToken(r, newAccess))]
              /\ UNCHANGED failed
  /\ UNCHANGED <<env, script>>

\* The response to the re-issued request arrives.
Recv2(c) ==
  LET r == call[c]
      s == r.stub[2]
  IN
  /\ r.pc = "sent2"
  /\ IF s = TransportError \/ RaisesForStatus(s)
     THEN call' = [call EXCEPT ![c] = Finish(r, FailureReturn(r.op))]
     ELSE \E data \in BodiesOf(r.op, r.arg) :
            call' = [call EXCEPT ![c] = Finish(r, SuccessReturn(r.op, r.arg, data))]
  /\ UNCHANGED <<access_token, refresh_token, env, script, refreshed, lastIssued, failed>>

\* The caller takes the result.
Return(c) ==
  /\ call[c].pc = "done"
  /\ call' = [call EXCEPT ![c] = IdleCall]
  /\ UNCHANGED <<access_token, refresh_token, env, script, refreshed, lastIssued, failed>>

\* The tool server process is started again: a new SchwabAPIClient.
RestartClient ==
  /\ Quiet
  /\ access_token' = getenv(env, KeyAccess)
  /\ refresh_token' = getenv(env, KeyRefresh)
  /\ refreshed' = FALSE
  /\ lastIssued' = None
  /\ failed' = FALSE
  /\ UNCHANGED <<env, call, script>>

\* ------------------------------------------------------------------ scripts
AuthCode == <<"auth_code">>
CALLBACK_URL == <<"https://lively-tarsier-11a576.netlify.app/callback.html">>

\* The token POST of schwab_oauth.exchange_code_for_tokens.
ExchangeRequest(code) ==
  [ headers |-> ("Authorization" :> BasicAuth(ClientId, ClientSecret))
                @@ ("Content-Type" :> "application/x-www-form-urlencoded"),
    data |-> [ grant_type |-> "authorization_code", code |-> code,
               redirect_uri |-> CALLBACK_URL ] ]

\* The token POST of refresh_token.py.
ScriptRefreshRequest(id, secret, rt) ==
  [ headers |-> ("Authorization" :> BasicAuth(id, secret))
                @@ ("Content-Type" :> "application/x-www-form-urlencoded"),
    data |-> [ grant_type |-> "refresh_token", refresh_token |-> rt ] ]

\* schwab_oauth.exchange_code_for_tokens(auth_code) against response `resp`,
\* the operator answering `answer` to "Auto-update .env file? (y/n)".
\* Gives how the function ends and the file it leaves.
exchange_code_for_tokens(file, code, resp, answer) ==
  LET req == ExchangeRequest(code)
      base == [NoScript EXCEPT !.nTokenReq = 1, !.tokenReq = req, !.tokenResp = resp]
  IN  IF resp.status = TransportError \/ RaisesForStatus(resp.status)
      THEN [run |-> [base EXCEPT !.outcome = "returned None"], file |-> file]
      ELSE IF "access_token" \notin DOMAIN resp.body
              \/ "refresh_token" \notin DOMAIN resp.body
      THEN [run |-> [base EXCEPT !.outcome = "KeyError"], file |-> file]
      ELSE IF answer = "y"
      THEN [run |-> [base EXCEPT !.outcome = "returned tokens", !.wrote = TRUE],
            file |-> update_env_file(file, resp.body["access_token"],
                                     resp.body["refresh_token"])]
      ELSE [run |-> [base EXCEPT !.outcome = "returned tokens"], file |-> file]

\* schwab_oauth.main(): the pasted callback URL carries a code, or does not.
OAuthMain(hasCode, resp, answer) ==
  /\ Quiet
  /\ IF hasCode
     THEN LET x == exchange_code_for_tokens(env, AuthCode, resp, answer)
          IN  /\ script' = [x.run EXCEPT !.name = "schwab_oauth.py"]
              /\ env' = x.file
     ELSE /\ script' = [NoScript EXCEPT !.name = "schwab_oauth.py",
                                        !.outcome = "no code in URL"]
          /\ env' = env
  /\ UNCHANGED <<access_token, refresh_token, call, refreshed, lastIssued, failed>>

\* exchange_token.py: asyncio.run(exchange_code_for_tokens(auth_code)). The
\* function is not a coroutine function, so asyncio.run receives its return
\* value (a dict or None) and raises ValueError.
ExchangeTokenScript(resp, answer) ==
  /\ Quiet
  /\ LET x == exchange_code_for_tokens(env, AuthCode, resp, answer)
     IN  /\ script' = [x.run EXCEPT
                         !.name = "exchange_token.py",
                         !.outcome = IF x.run.outcome = "KeyError"
                                     THEN "KeyError" ELSE "ValueError"]
         /\ env' = x.file
  /\ UNCHANGED <<access_token, refresh_token, call, refreshed, lastIssued, failed>>

\* tokens.get('refresh_token', REFRESH_TOKEN) of refresh_token.py
ScriptNewRefresh(tokens, old) == Get(tokens, "refresh_token", old)

\* refresh_token.py, run from top to bottom.
RefreshScript(resp, answer) ==
  LET id == getenv(env, "SCHWAB_CLIENT_ID")
      secret == getenv(env, "SCHWAB_CLIENT_SECRET")
      REFRESH_TOKEN == getenv(env, KeyRefresh)
      base == [NoScript EXCEPT !.name = "refresh_token.py"]
      sent == [base EXCEPT !.nTokenReq = 1, !.tokenResp = resp,
                 !.tokenReq = ScriptRefreshRequest(id, secret, REFRESH_TOKEN)]
  IN
  /\ Quiet
  /\ IF None \in {id, secret, REFRESH_TOKEN}
     THEN /\ script' = [base EXCEPT !.outcome = "exit 1"]
          /\ env' = env
     ELSE IF resp.status = TransportError
     THEN /\ script' = [sent EXCEPT !.outcome = "exception printed"]
          /\ env' = env
     ELSE IF resp.status # 200
     THEN /\ script' = [sent EXCEPT !.outcome = "error printed"]
          /\ env' = env
     ELSE IF "access_token" \notin DOMAIN resp.body
     THEN /\ script' = [sent EXCEPT !.outcome = "exception printed"]
          /\ env' = env
     ELSE IF answer = "y"
     THEN /\ script' = [sent EXCEPT !.outcome = "refreshed", !.wrote = TRUE]
          /\ env' = update_env_file(env, resp.body["access_token"],
                                    ScriptNewRefresh(resp.body, REFRESH_TOKEN))
     ELSE /\ script' = [sent EXCEPT !.outcome = "refreshed"]
          /\ env' = env
  /\ UNCHANGED <<access_token, refresh_token, call, refreshed, lastIssued, failed>>

\* The script's process ends.
ScriptExit ==
  /\ script.name # "none"
  /\ script' = NoScript
  /\ UNCHANGED <<access_token, refresh_token, env, call, refreshed, lastIssued, failed>>

Answers == {"y", "n"}

\* ------------------------------------------------------------------ spec
\* The program as it is run: synchronous, one operation at a time.
StartCall ==
  \E c \in Callers, op \in Ops, stub \in Stubs :
    \E arg \in ArgsOf(op) : Quiet /\ Start(c, op, arg, stub)

Next ==
  \/ StartCall
  \/ \E c \in Callers : Recv1(c)
  \/ \E c \in Callers, resp \in TokenResponses : RecvRefresh(c, resp)
  \/ \E c \in Callers : Recv2(c)
  \/ \E c \in Callers : Return(c)
  \/ RestartClient
  \/ \E hasCode \in BOOLEAN, resp \in TokenResponses, answer \in Answers :
       OAuthMain(hasCode, resp, answer)
  \/ \E resp \in TokenResponses, answer \in Answers : ExchangeTokenScript(resp, answer)
  \/ \E resp \in TokenResponses, answer \in Answers : RefreshScript(resp, answer)
  \/ ScriptExit

Spec == Init /\ [][Next]_vars

\* ------------------------------------------------------- concurrent callers
\* The tool server handling several tool calls at once on the module-level
\* schwab_client: SchwabAPIClient holds no lock, so the callers' steps
\* interleave at every blocking HTTP call.

\* The calls made concurrently: bulk quotes, answered 200 or 401.
ConcStubs == {200, 401} \X {200, 401}

\* A caller enters get_quotes_bulk, whatever the other callers are doing.
StartConcurrentCall ==
  \E c \in Callers, stub \in ConcStubs :
    \E arg \in ArgsOf("get_quotes_bulk") :
      /\ script.name = "none"
      /\ Start(c, "get_quotes_bulk", arg, stub)

NextConc ==
  \/ StartConcurrentCall
  \/ \E c \in Callers : Recv1(c)
  \/ \E c \in Callers, resp \in TokenResponses : RecvRefresh(c, resp)
  \/ \E c \in Callers : Recv2(c)
  \/ \E c \in Callers : Return(c)

SpecConc == Init /\ [][NextConc]_vars

\* ------------------------------------------------------------------ claims
\* The refresh response of a call carried an access token.
IssuedToken(r) == "access_token" \in DOMAIN r.tokenResp.body

\* The values a 200 response can make the method return.
Payloads(r) == {SuccessReturn(r.op, r.arg, d) : d \in BodiesOf(r.op, r.arg)}

\* C1: at every call site, a call whose first response is 401, whose refresh
\* succeeds (the token endpoint returned an access token) and whose stub
\* answers the re-issued request with 200 ends having
\* made exactly one refresh call and exactly two data requests (one retry), and
\* returns the payload of the 200 response.
C1_RefreshOnceRetryOnceReturnsPayload ==
  \A c \in Callers :
    LET r == call[c]
    IN  (r.pc = "done" /\ r.stub = <<401, 200>> /\ r.refreshOk = "ok" /\ IssuedToken(r))
        => /\ r.nRefresh = 1
           /\ r.nTokenReq = 1
           /\ r.nReq = 2
           /\ r.ret \in Payloads(r)

\* C2: at every call site, a call whose first and re-issued requests are both
\* answered 401, with the refresh in between succeeding (the token endpoint
\* returned an access token), ends with one refresh, two data requests and the
\* failure result; there is no third request and no second refresh.
C2_SecondUnauthorizedFailsAfterOneRetry ==
  \A c \in Callers :
    LET r == call[c]
    IN  (r.pc = "done" /\ r.stub = <<401, 401>> /\ r.refreshOk = "ok" /\ IssuedToken(r))
        => /\ r.nRefresh = 1
           /\ r.nTokenReq = 1
           /\ r.nReq = 2
           /\ IsFailure(r.op, r.ret)

\* C3: when the first response is 401 and the refresh fails (no refresh token,
\* or the token endpoint answers with an error), the call is over at once with
\* the failure result and exactly one data request was sent.
C3_RefreshFailureEndsCallWithoutRetry ==
  \A c \in Callers :
    LET r == call[c]
    IN  r.refreshOk = "fail"
        => /\ r.stub[1] = 401
           /\ r.pc = "done"
           /\ r.nReq = 1
           /\ r.nRefresh = 1
           /\ IsFailure(r.op, r.ret)

\* C3 witness: a call ended by a refresh that the token endpoint rejected.
C3_Witness ==
  \E c \in Callers :
    /\ call[c].refreshOk = "fail"
    /\ call[c].nTokenReq = 1
    /\ call[c].tokenResp.status = 400
    /\ call[c].pc = "done"

\* The refresh token a successful refresh must leave: the response's when it
\* carries one, else the one that was sent.
ExpectedRefreshToken(req, resp) ==
  IF "refresh_token" \in DOMAIN resp.body
  THEN resp.body["refresh_token"]
  ELSE req.data["refresh_token"]

\* C4: after a successful refresh the stored refresh_token is the response's
\* when the response carries one and the prior one when it does not, and it is
\* never missing; in the client's memory, and in the file refresh_token.py
\* rewrites.
C4_RefreshTokenKeptWhenNotRotated ==
  /\ \A c \in Callers :
       call[c].refreshOk = "ok"
       => /\ refresh_token = ExpectedRefreshToken(call[c].tokenReq, call[c].tokenResp)
          /\ refresh_token \in RefreshTokens
  /\ (script.name = "refresh_token.py" /\ script.wrote)
     => /\ getenv(env, KeyRefresh) = ExpectedRefreshToken(script.tokenReq, script.tokenResp)
        /\ getenv(env, KeyRefresh) \in RefreshTokens

\* C4 witness: a refresh succeeded on a response without refresh_token, and
\* the client still holds the token it sent.
C4_Witness ==
  \E c \in Callers :
    /\ call[c].refreshOk = "ok"
    /\ "refresh_token" \notin DOMAIN call[c].tokenResp.body
    /\ refresh_token = call[c].tokenReq.data["refresh_token"]

\* C5 as stated: in every reachable state there is exactly one current access
\* token, and a re-issued request in flight carries the token of the latest
\* successful refresh.
C5_ExactlyOneCurrentToken ==
  /\ access_token \in AccessTokens
  /\ \A c \in Callers : call[c].pc = "sent2" => call[c].bearer = lastIssued

\* C5 amended: the client holds at most one current access token (one token or
\* none), and every data request sent once a refresh has succeeded carries the
\* access token that the latest successful refresh returned.
C5_AtMostOneTokenRequestsCarryLatest ==
  /\ [](access_token \in AccessTokens \cup {None})
  /\ [][\A c \in Callers :
          (call'[c].nReq > call[c].nReq /\ refreshed')
          => /\ call'[c].bearer = lastIssued'
             /\ call'[c].bearer = access_token']_vars

\* C5 witness: a request re-issued after a refresh is in flight with the token
\* that refresh returned.
C5_Witness ==
  \E c \in Callers :
    /\ call[c].pc = "sent2"
    /\ refreshed
    /\ call[c].bearer = lastIssued
    /\ call[c].bearer \in AccessTokens

\* The file holds this access/refresh pair.
Persisted(file, access, refresh) ==
  /\ getenv(file, KeyAccess) = access
  /\ getenv(file, KeyRefresh) = refresh

\* C6: a successful refresh leaves the new pair in durable storage; stated for
\* the refresh that a 401 triggers inside an authenticated request: after the
\* step in which the client's refresh succeeds, the .env file holds the access
\* and refresh token the client now has in memory.
C6_ClientRefreshPersistsPair ==
  [][\A c \in Callers :
       (call[c].pc = "refreshing" /\ call'[c].refreshOk = "ok")
       => Persisted(env', access_token', refresh_token')]_vars

\* C7: once a refresh of this client instance was rejected because the
\* refresh token is invalid or expired, the instance never gets another token
\* pair.
C7_FailedIsTerminal ==
  [][(failed /\ failed')
     => (access_token' = access_token /\ refresh_token' = refresh_token)]_vars

\* C8: an authorization-code exchange whose response carries no token pair
\* (HTTP error, or 2xx without access_token) ends as an error result, after
\* exactly one token request, with the .env file not rewritten.
C8_FailedExchangeIsErrorResult ==
  ( /\ script.name \in {"schwab_oauth.py", "exchange_token.py"}
    /\ script.nTokenReq >= 1
    /\ script.tokenResp.status # TransportError
    /\ \/ script.tokenResp.status # 200
       \/ "access_token" \notin DOMAIN script.tokenResp.body )
  => /\ script.outcome = "returned None"
     /\ script.nTokenReq = 1
     /\ ~script.wrote

\* C9: a bulk fetch answered with data for only some symbols gives, for each
\* symbol with data, the last/bid/ask the server delivered, and for each symbol
\* without, an error entry under the symbol; never one error for the batch.
C9_BulkResultCarriesServerPrices ==
  \A c \in Callers :
    LET r == call[c]
        quotes == r.ret.val
        result == r.tool.result
        list == ParseSymbols(r.arg)
    IN  (r.pc = "done" /\ r.op = "get_quotes_bulk" /\ r.ret.kind = "value")
        => /\ r.tool.status = "ok"
           /\ \A i \in 1..Len(list) :
                LET s == list[i]
                IN  IF s \in DOMAIN quotes
                    THEN LET q == quotes[s]["quote"]
                         IN  /\ {<<s, "_price">>, <<s, "_bid">>, <<s, "_ask">>}
                                  \subseteq DOMAIN result
                             /\ result[<<s, "_price">>] = [num |-> q["lastPrice"]]
                             /\ "bidPrice" \in DOMAIN q
                                  => result[<<s, "_bid">>] = [num |-> q["bidPrice"]]
                             /\ "askPrice" \in DOMAIN q
                                  => result[<<s, "_ask">>] = [num |-> q["askPrice"]]
                    ELSE /\ <<s, "">> \in DOMAIN result
                         /\ result[<<s, "">>] = SymbolError

\* The request authenticates with the Basic header alone.
BasicHeaderOnly(req) ==
  /\ "Authorization" \in DOMAIN req.headers
  /\ req.headers["Authorization"] = BasicAuth(ClientId, ClientSecret)
  /\ {"client_id", "client_secret"} \cap DOMAIN req.data = {}

\* C10: every refresh request, from the client and from refresh_token.py,
\* carries the credentials as the Basic Authorization header and not as body
\* fields.
C10_RefreshUsesBasicAuthOnly ==
  /\ \A c \in Callers : call[c].nTokenReq > 0 => BasicHeaderOnly(call[c].tokenReq)
  /\ (script.name = "refresh_token.py" /\ script.nTokenReq > 0)
     => BasicHeaderOnly(script.tokenReq)

\* C11: refresh and retry happen only after a 401 on the first attempt. A call
\* whose first attempt ends in a transport error or in an error status other
\* than 401 is over with the failure result after exactly one request and no
\* refresh call; a transport error on the re-issued request ends the call with
\* the failure result and no further request.
C11_RetryOnlyAfterUnauthorized ==
  \A c \in Callers :
    LET r == call[c]
    IN  /\ (r.pc \notin {"idle", "sent1"} /\ r.nReq >= 1 /\ r.stub[1] \notin {200, 401})
           => /\ r.pc = "done"
              /\ r.nReq = 1
              /\ r.nRefresh = 0
              /\ r.nTokenReq = 0
              /\ r.refreshOk = "none"
              /\ IsFailure(r.op, r.ret)
        /\ (r.pc = "done" /\ r.nReq = 2 /\ r.stub[2] = TransportError)
           => IsFailure(r.op, r.ret)
        /\ r.nReq <= 2
        /\ r.nRefresh <= 1

\* C11 witness: a call ended by a 404 on its first attempt, and no refresh.
C11_Witness ==
  \E c \in Callers :
    /\ call[c].pc = "done"
    /\ call[c].stub[1] = 404
    /\ call[c].nReq = 1
    /\ call[c].nRefresh = 0

\* C12: a script's rewrite of the .env file keeps the number of lines, writes
\* every line that starts with neither SCHWAB_ACCESS_TOKEN= nor
\* SCHWAB_REFRESH_TOKEN= back unchanged at its position, and replaces each
\* line that starts with one of the two keys by that key with the new value.
C12_RewritePreservesUnrelatedLines ==
  [][ (~script.wrote /\ script'.wrote) =>
        LET body == script'.tokenResp.body
            access == body["access_token"]
            refresh == IF script'.name = "refresh_token.py"
                       THEN Get(body, "refresh_token", getenv(env, KeyRefresh))
                       ELSE body["refresh_token"]
        IN  /\ Len(env') = Len(env)
            /\ \A i \in 1..Len(env) :
                 /\ env[i].key \notin {KeyAccess, KeyRefresh} => env'[i] = env[i]
                 /\ env[i].key = KeyAccess => env'[i] = Line(KeyAccess, access)
                 /\ env[i].key = KeyRefresh => env'[i] = Line(KeyRefresh, refresh)
    ]_vars

\* C12 witness: a script has rewritten a file holding token lines, and the
\* access token line now carries the token of the script's response.
C12_Witness ==
  /\ script.wrote
  /\ "access_token" \in DOMAIN script.tokenResp.body
  /\ getenv(env, KeyAccess) = script.tokenResp.body["access_token"]
  /\ getenv(env, KeyAccess) # AT(1)
  /\ \E i \in 1..Len(env) : env[i].key = "# SCHWAB_ACCESS_TOKEN"

\* Callers whose refresh request is at the token endpoint.
Refreshing == {c \in Callers : call[c].pc = "refreshing"}

\* C13: with concurrent callers on the one client, at most one refresh is in
\* flight at any time; callers that each saw a 401 share a single refresh.
C13_AtMostOneRefreshInFlight ==
  Cardinality(Refreshing) <= 1

\* C14: whenever refresh_access_token has returned True, the client's
\* access_token is a token taken from the refresh response, whatever 2xx body
\* the token endpoint returned.
C14_SuccessfulRefreshLeavesUsableToken ==
  \A c \in Callers :
    (call[c].pc # "idle" /\ call[c].refreshOk = "ok")
      => /\ access_token \in AccessTokens
         /\ "access_token" \in DOMAIN call[c].tokenResp.body
         /\ access_token = call[c].tokenResp.body["access_token"]

====
